---------------------------- MODULE Spec2Model ----------------------------
(***************************************************************************)
(* FWA incident lifecycle of the compliance system: the FWAIncident model   *)
(* (src/src/models/FWAIncident.js) with its beforeCreate / beforeUpdate     *)
(* hooks, the instance methods escalate and referToOIG, and the incident    *)
(* reporting path of FWADetectionService (src/src/middleware/auth.js).      *)
(*                                                                         *)
(* One incident row is modelled.  Every operation loads the row, mutates    *)
(* the instance and saves it in one step (one actor at a time).  Numbers    *)
(* in [0,1] (confidences, sentiment) are kept in thousandths.               *)
(*                                                                         *)
(* Spec          the incident lifecycle, one actor at a time.               *)
(* SpecAnalysis  analyzeCallTranscript followed by reportFWAIncident.       *)
(* SpecConc      two request handlers that each load the row, run one       *)
(*               operation on their own instance and save it.               *)
(* SpecScore     calculateRiskScore applied to one unsaved incident.        *)
(* SpecBilling   analyzeBillingPattern on one billing batch.                *)
(* SpecLogin     the login route, authenticate and the account lockout of   *)
(*               Employee (src/src/models/Employee.js).                     *)
(***************************************************************************)
EXTENDS Integers, Sequences, FiniteSets, TLC

VARIABLES inc, now, alerts, call, result, analysis, cache, inst, emp, session

vars == <<inc, now, alerts, call, result, analysis, cache, inst, emp, session>>

\* The employee account and the login history kept for the lockout claim.
loginVars == <<emp, session>>

\* What the incident lifecycle operations of one actor leave alone.
analysisVars == <<analysis, cache>>

(***************************************************************************)
(* Bounds and input sets                                                    *)
(***************************************************************************)
\* Number of clock ticks (operations) explored.
MaxTime == 3

Severities == {"LOW", "MEDIUM", "HIGH", "CRITICAL"}

Statuses == {"REPORTED", "UNDER_INVESTIGATION", "SUBSTANTIATED", "UNSUBSTANTIATED",
             "REFERRED_TO_OIG", "REFERRED_TO_CMS", "RESOLVED", "CLOSED"}

\* Incident types a human report is filed with in the model.
ReportTypes == {"WASTE"}

\* Incident types a saved update may set.
UpdateTypes == {"FRAUD", "COMPLIANCE_VIOLATION"}

FinValues == {0, 5000, 150000}

AffValues == {0, 150}

NoViolations == [cms_violation |-> FALSE, hipaa_violation |-> FALSE,
                 false_claims_act |-> FALSE, anti_kickback |-> FALSE]

ComplianceInputs == {NoViolations,
                     [NoViolations EXCEPT !.false_claims_act = TRUE],
                     [NoViolations EXCEPT !.cms_violation = TRUE, !.hipaa_violation = TRUE,
                                          !.anti_kickback = TRUE]}

\* Inputs of the risk score on its own: every band of every term, a missing
\* ("null") and an unknown severity and type, every set of compliance flags.
ScoreSeverities == Severities \cup {"null", "UNKNOWN"}

ScoreTypes == {"FRAUD", "WASTE", "SUSPICIOUS_ACTIVITY", "UNKNOWN", "null"}

ScoreFinValues == {0, 1000, 1001, 10001, 100001, 150000}

ScoreAffValues == {0, 1, 2, 11, 101, 150}

ScoreCompliance == [DOMAIN NoViolations -> BOOLEAN]

\* Billing batches: the example batch of the specification, and every list
\* of at most MaxBills bills over BillAmounts followed by 0, 10 or 17 bills
\* of 100 (an item can only lie more than 3 standard deviations
\* from the mean of a batch of 11 or more, and more than 4 in one of 18 or more).
MaxBills == 3

BillAmounts == {98, 100, 105, 500}

PadCounts == {0, 10, 17}

ExampleAmounts == <<100, 100, 105, 98, 100, 5000>>

\* Failed password attempts followed without a successful login in between.
MaxFailures == 6

\* risk_score values a caller may hand in; NoScore stands for "not given".
NoScore == -1

RiskInputs == {NoScore, 7}

Users == {"u1"}

Reasons == {"r1"}

CaseNumbers == {"OIG-1", "OIG-2"}

\* reporterId of reportFWAIncident; "null" is the JavaScript null.
ReporterIds == {"null", "emp1"}

\* Analysis confidences, in thousandths.
Confidences == {299, 300, 600, 800, 900}

\* A finding of the pattern matcher: its category and confidence.
Finding(category, confidence) == [category |-> category, confidence |-> confidence]

\* The pattern findings of the analysis results handed to reportFWAIncident.
PatternInputs == {<< >>,
                  <<Finding("billing", 850), Finding("enrollment", 850)>>,
                  <<Finding("benefits", 850), Finding("keyword_match", 200)>>}

\* Longest list of pattern findings of one analysis.
MaxPatterns == 2

\* Fraud scores the stand-in classifier computes from the text features.
FraudScores == {0, 250, 375, 600}

\* Sentiment of the transcript.
Sentiments == {-500, -300, 0}

\* The extractor that fails during an analysis, if any.
\* The fraud scores of the transcript a cached read computes on a miss.
FetchFraudScores == {375}

Failures == {"none", "patternMatcher", "sentiment", "textClassifier"}

\* A DATE column that is still null.
NoDate == 0

(***************************************************************************)
(* The model's row                                                          *)
(***************************************************************************)
\* Column defaults of sequelize.define('FWAIncident', ...).
Defaults ==
  [exists |-> FALSE,
   incident_type |-> "null",
   severity |-> "MEDIUM",
   status |-> "REPORTED",
   detection_method |-> "null",
   reporter_id |-> "null",
   affected_count |-> 0,
   financial_impact |-> 0,
   investigation_started |-> NoDate,
   investigation_completed |-> NoDate,
   regulatory_reported |-> FALSE,
   regulatory_report_date |-> NoDate,
   oig_referral |-> FALSE,
   oig_case_number |-> "null",
   risk_score |-> NoScore,
   compliance_impact |-> NoViolations,
   timeline |-> << >>]

\* The attributes Sequelize tracks for changed().
Attributes == DOMAIN Defaults \ {"exists"}

Min(a, b) == IF a < b THEN a ELSE b

(***************************************************************************)
(* calculateRiskScore                                                       *)
(***************************************************************************)
severityScores == [LOW |-> 10, MEDIUM |-> 25, HIGH |-> 50, CRITICAL |-> 75]

typeScores == [FRAUD |-> 25, IDENTITY_THEFT |-> 20, UNAUTHORIZED_DISCLOSURE |-> 20,
               BILLING_IRREGULARITY |-> 15, ENROLLMENT_MANIPULATION |-> 15,
               ABUSE |-> 10, WASTE |-> 5]

\* Mutation: the final Math.min(100, score) is forgotten.
calculateRiskScore_NoClamp(incident) ==
  LET sev == IF incident.severity \in DOMAIN severityScores
             THEN severityScores[incident.severity] ELSE 0
      typ == IF incident.incident_type \in DOMAIN typeScores
             THEN typeScores[incident.incident_type] ELSE 10
      fin == IF incident.financial_impact > 100000 THEN 25
             ELSE IF incident.financial_impact > 10000 THEN 15
             ELSE IF incident.financial_impact > 1000 THEN 5 ELSE 0
      aff == IF incident.affected_count > 100 THEN 20
             ELSE IF incident.affected_count > 10 THEN 10
             ELSE IF incident.affected_count > 1 THEN 5 ELSE 0
      violations == incident.compliance_impact
      vio == (IF violations.false_claims_act THEN 30 ELSE 0)
           + (IF violations.anti_kickback THEN 25 ELSE 0)
           + (IF violations.cms_violation THEN 20 ELSE 0)
           + (IF violations.hipaa_violation THEN 15 ELSE 0)
  IN sev + typ + fin + aff + vio

calculateRiskScore(incident) ==
  LET sev == IF incident.severity \in DOMAIN severityScores
             THEN severityScores[incident.severity] ELSE 0
      typ == IF incident.incident_type \in DOMAIN typeScores
             THEN typeScores[incident.incident_type] ELSE 10
      fin == IF incident.financial_impact > 100000 THEN 25
             ELSE IF incident.financial_impact > 10000 THEN 15
             ELSE IF incident.financial_impact > 1000 THEN 5 ELSE 0
      aff == IF incident.affected_count > 100 THEN 20
             ELSE IF incident.affected_count > 10 THEN 10
             ELSE IF incident.affected_count > 1 THEN 5 ELSE 0
      violations == incident.compliance_impact
      vio == (IF violations.false_claims_act THEN 30 ELSE 0)
           + (IF violations.anti_kickback THEN 25 ELSE 0)
           + (IF violations.cms_violation THEN 20 ELSE 0)
           + (IF violations.hipaa_violation THEN 15 ELSE 0)
  IN Min(100, sev + typ + fin + aff + vio)

(***************************************************************************)
(* Hooks                                                                    *)
(***************************************************************************)
\* Mutation: the spread of the old timeline is forgotten.
appendTimeline_Replace(timeline, timelineEntry) == << timelineEntry >>

\* [...(incident.timeline || []), timelineEntry]
appendTimeline(timeline, timelineEntry) == Append(timeline, timelineEntry)

\* Mutation: a risk_score handed in by the caller is kept.
beforeCreate_CallerScore(incident, t) ==
  [incident EXCEPT
     !.timeline = << [action |-> "REPORTED",
                      timestamp |-> t,
                      user |-> IF incident.reporter_id # "null"
                               THEN incident.reporter_id ELSE "SYSTEM",
                      details |-> [type |-> incident.incident_type,
                                   method |-> incident.detection_method]] >>,
     !.risk_score = IF incident.risk_score # NoScore
                    THEN incident.risk_score ELSE calculateRiskScore(incident)]

\* Mutation: the timeline is left at its column default.
beforeCreate_NoTimeline(incident, t) ==
  [incident EXCEPT !.risk_score = calculateRiskScore(incident)]

beforeCreate(incident, t) ==
  [incident EXCEPT
     !.timeline = << [action |-> "REPORTED",
                      timestamp |-> t,
                      user |-> IF incident.reporter_id # "null"
                               THEN incident.reporter_id ELSE "SYSTEM",
                      details |-> [type |-> incident.incident_type,
                                   method |-> incident.detection_method]] >>,
     !.risk_score = calculateRiskScore(incident)]

\* Mutation: investigation_completed is set on every move to a closing status.
beforeUpdate_Overwrite(incident, changes, t) ==
  IF changes # {}
  THEN LET statusChanged == "status" \in changes
           timelineEntry ==
             [action |-> IF statusChanged
                         THEN "STATUS_CHANGED_TO_" \o incident.status
                         ELSE "UPDATED",
              timestamp |-> t,
              changes |-> changes]
           started ==
             IF statusChanged /\ incident.status = "UNDER_INVESTIGATION"
                /\ incident.investigation_started = NoDate
             THEN t ELSE incident.investigation_started
           completed ==
             IF statusChanged /\ incident.status \in {"RESOLVED", "CLOSED", "UNSUBSTANTIATED"}
             THEN t ELSE incident.investigation_completed
           dated == [incident EXCEPT !.investigation_started = started,
                                     !.investigation_completed = completed,
                                     !.timeline = appendTimeline(incident.timeline, timelineEntry)]
       IN [dated EXCEPT !.risk_score = calculateRiskScore(dated)]
  ELSE incident

beforeUpdate(incident, changes, t) ==
  IF changes # {}
  THEN LET statusChanged == "status" \in changes
           timelineEntry ==
             [action |-> IF statusChanged
                         THEN "STATUS_CHANGED_TO_" \o incident.status
                         ELSE "UPDATED",
              timestamp |-> t,
              changes |-> changes]
           started ==
             IF statusChanged /\ incident.status = "UNDER_INVESTIGATION"
                /\ incident.investigation_started = NoDate
             THEN t ELSE incident.investigation_started
           completed ==
             IF statusChanged /\ incident.status \in {"RESOLVED", "CLOSED", "UNSUBSTANTIATED"}
                /\ incident.investigation_completed = NoDate
             THEN t ELSE incident.investigation_completed
           dated == [incident EXCEPT !.investigation_started = started,
                                     !.investigation_completed = completed,
                                     !.timeline = appendTimeline(incident.timeline, timelineEntry)]
       IN [dated EXCEPT !.risk_score = calculateRiskScore(dated)]
  ELSE incident

\* incident.changed(): the attributes whose value differs from the loaded row.
changed(old, new) == {a \in Attributes : old[a] # new[a]}

\* Mutation: the hook treats every save as a change.
save_Touch(old, new, t) == beforeUpdate(new, changed(old, new) \cup {"updated_at"}, t)

\* instance.save() of a persisted instance: nothing is written when nothing
\* changed; otherwise the beforeUpdate hook runs and the instance is stored.
save(old, new, t) ==
  IF changed(old, new) = {} THEN old ELSE beforeUpdate(new, changed(old, new), t)

(***************************************************************************)
(* FWADetectionService helpers                                              *)
(***************************************************************************)
riskThresholds == [LOW |-> 300, MEDIUM |-> 600, HIGH |-> 800, CRITICAL |-> 900]

\* Mutation: the lower bounds are exclusive.
determineRiskLevel_Exclusive(confidence) ==
  IF confidence > riskThresholds.CRITICAL THEN "CRITICAL"
  ELSE IF confidence > riskThresholds.HIGH THEN "HIGH"
  ELSE IF confidence > riskThresholds.MEDIUM THEN "MEDIUM"
  ELSE "LOW"

determineRiskLevel(confidence) ==
  IF confidence >= riskThresholds.CRITICAL THEN "CRITICAL"
  ELSE IF confidence >= riskThresholds.HIGH THEN "HIGH"
  ELSE IF confidence >= riskThresholds.MEDIUM THEN "MEDIUM"
  ELSE "LOW"

\* analysisResult.patterns.some(p => p.category === category)
someCategory(patterns, category) ==
  \E k \in 1..Len(patterns) : patterns[k].category = category

\* Mutation: only the first finding is looked at.
determineIncidentType_First(analysisResult) ==
  LET first == IF Len(analysisResult.patterns) = 0 THEN "none"
               ELSE analysisResult.patterns[1].category
  IN IF first = "billing" THEN "BILLING_IRREGULARITY"
     ELSE IF first = "enrollment" THEN "ENROLLMENT_MANIPULATION"
     ELSE IF first = "benefits" THEN "BENEFIT_MISREPRESENTATION"
     ELSE "SUSPICIOUS_ACTIVITY"

determineIncidentType(analysisResult) ==
  IF someCategory(analysisResult.patterns, "billing") THEN "BILLING_IRREGULARITY"
  ELSE IF someCategory(analysisResult.patterns, "enrollment") THEN "ENROLLMENT_MANIPULATION"
  ELSE IF someCategory(analysisResult.patterns, "benefits") THEN "BENEFIT_MISREPRESENTATION"
  ELSE "SUSPICIOUS_ACTIVITY"

\* Mutation: a confidence equal to the LOW threshold is not reported.
belowReportingThreshold_Inclusive(confidence) == confidence <= riskThresholds.LOW

\* analysisResult.confidence < this.riskThresholds.LOW
belowReportingThreshold(confidence) == confidence < riskThresholds.LOW

\* Math.round(confidence * 100), for a confidence in thousandths.
roundPercent(confidence) == (confidence + 5) \div 10

\* A regex of suspiciousPatterns[category] matched.
patternFinding(category) == Finding(category, 850)

\* count fraud keywords occur in the text.
keywordFinding(count) == Finding("keyword_match", Min(900, count * 200))

\* The findings patternMatcher.analyzeText may list.
FindingInputs == {patternFinding("billing"), patternFinding("enrollment"),
                  patternFinding("benefits"), keywordFinding(1), keywordFinding(4)}

\* The lists of findings an analysis may carry: at most one keyword_match,
\* in any order (the consumers of the list take any array).
PatternSeqs ==
  {patterns \in UNION {[1..n -> FindingInputs] : n \in 0..MaxPatterns} :
     \A i, j \in 1..Len(patterns) :
       (patterns[i].category = "keyword_match" /\ patterns[j].category = "keyword_match")
         => i = j}

\* classifyText, from the fraud score it derives from the features.
classifyText(fraudScore) ==
  [confidence |-> Min(950, fraudScore * 2),
   class |-> IF fraudScore > 500 THEN "FRAUD" ELSE "NORMAL"]

\* Mutation: the running maximum is replaced by the current finding.
Max_Second(a, b) == b

\* Math.max
Max(a, b) == IF a > b THEN a ELSE b

\* patterns.forEach(pattern => patternConfidence = Math.max(patternConfidence, ...))
RECURSIVE patternConfidenceFrom(_, _)
patternConfidenceFrom(patterns, patternConfidence) ==
  IF patterns = << >> THEN patternConfidence
  ELSE patternConfidenceFrom(Tail(patterns), Max(patternConfidence, Head(patterns).confidence))

\* sentiment < -0.3 ? 0.2 : 0
sentimentImpact(sentiment) == IF sentiment < -300 THEN 200 ELSE 0

\* Mutation: the sum is not clamped at 1.0.
fuseConfidence_NoClamp(patternConfidence, classificationConfidence, impact) ==
  (5 * patternConfidence + 4 * classificationConfidence) \div 10 + impact

\* Math.min(1.0, patternConfidence * 0.5 + classification.confidence * 0.4 + impact);
\* the inputs of the model keep the division exact.
fuseConfidence(patternConfidence, classificationConfidence, impact) ==
  Min(1000, (5 * patternConfidence + 4 * classificationConfidence) \div 10 + impact)

\* The analysis analyzeCallTranscript returns for the extractors' outputs
\* (indicators and recommendations are derived from these fields).
callAnalysis(patterns, classificationResult, sentiment) ==
  LET confidence == fuseConfidence(patternConfidenceFrom(patterns, 0),
                                   classificationResult.confidence,
                                   sentimentImpact(sentiment))
  IN [kind |-> "call",
      confidence |-> confidence,
      riskLevel |-> determineRiskLevel(confidence),
      patterns |-> patterns]

\* cacheHelpers.setWithExpiry: a failing cache is logged and ignored.
setWithExpiry(cached, value, cacheUp) == IF cacheUp THEN value ELSE cached

\* Mutation: the catch block rethrows instead of fetching directly.
getCached_NoFallback(cached, fetched, getUp, setUp) ==
  IF ~getUp THEN [value |-> [kind |-> "error"], cache |-> cached, fetches |-> 0]
  ELSE IF cached # [kind |-> "none"] THEN [value |-> cached, cache |-> cached, fetches |-> 0]
  ELSE IF setUp THEN [value |-> fetched, cache |-> fetched, fetches |-> 1]
  ELSE [value |-> [kind |-> "error"], cache |-> cached, fetches |-> 1]

\* cacheHelpers.getCached(key, fetchFunction): the value returned, the cache
\* entry afterwards and the number of fetchFunction calls.  getUp and setUp
\* tell whether redisClient.get and redisClient.set answer (a missing client
\* fails at get).  The entry is a JSON text of numbers, strings and arrays,
\* which JSON.parse gives back as stored.
getCached(cached, fetched, getUp, setUp) ==
  IF ~getUp THEN [value |-> fetched, cache |-> cached, fetches |-> 1]
  ELSE IF cached # [kind |-> "none"] THEN [value |-> cached, cache |-> cached, fetches |-> 0]
  ELSE IF setUp THEN [value |-> fetched, cache |-> fetched, fetches |-> 1]
  ELSE [value |-> fetched, cache |-> cached, fetches |-> 2]

mapRiskToSeverity(riskLevel) ==
  IF riskLevel \in Severities THEN riskLevel ELSE "MEDIUM"

(***************************************************************************)
(* Initial state: no incident has been created                              *)
(***************************************************************************)
\* No analysis has been produced (or cached) yet.
NoAnalysis == [kind |-> "none"]

\* The request handlers that hold an instance of the row.
Actors == {"a1", "a2"}

\* A handler that has not loaded the row.
NoInstance == [pc |-> "idle"]

\* Column defaults of the lockout fields of sequelize.define('Employee', ...).
EmployeeDefaults ==
  [failed_login_attempts |-> 0, account_locked |-> FALSE, lock_expires |-> NoDate]

Init ==
  /\ inc = Defaults
  /\ now = 0
  /\ alerts = 0
  /\ call = [op |-> "none", target |-> "none"]
  /\ result = "none"
  /\ analysis = NoAnalysis
  /\ cache = NoAnalysis
  /\ inst = [a \in Actors |-> NoInstance]
  /\ emp = EmployeeDefaults
  /\ session = [failures |-> 0, token |-> FALSE]

(***************************************************************************)
(* Operations                                                               *)
(***************************************************************************)
\* FWAIncident.create(values) for a human report.
Create(type, severity, fin, aff, comp, reporter, risk_in) ==
  /\ ~inc.exists
  /\ now < MaxTime
  /\ now' = now + 1
  /\ inc' = beforeCreate([Defaults EXCEPT !.exists = TRUE,
                                          !.incident_type = type,
                                          !.severity = severity,
                                          !.detection_method = "EMPLOYEE_REPORT",
                                          !.reporter_id = reporter,
                                          !.financial_impact = fin,
                                          !.affected_count = aff,
                                          !.compliance_impact = comp,
                                          !.risk_score = risk_in], now')
  /\ call' = [op |-> "create", target |-> "REPORTED"]
  /\ result' = "ok"
  /\ UNCHANGED alerts
  /\ UNCHANGED <<analysisVars, inst, loginVars>>

\* FWADetectionService.reportFWAIncident(analysisResult, source, reporterId)
\* (source only feeds the description and the metadata of the incident).
\* alertUp tells whether the awaited autoEscalateIncident returns; when it
\* throws, the catch block rethrows after the incident was created.
reportFWAIncident(analysisResult, reporterId, alertUp) ==
  /\ ~inc.exists
  /\ now < MaxTime
  /\ now' = now + 1
  /\ call' = [op |-> "reportFWAIncident", target |-> "REPORTED",
              confidence |-> analysisResult.confidence,
              patterns |-> analysisResult.patterns,
              alertUp |-> alertUp]
  /\ IF belowReportingThreshold(analysisResult.confidence)
     THEN /\ result' = "null"
          /\ UNCHANGED <<inc, alerts>>
     ELSE LET incidentType == determineIncidentType(analysisResult)
              severity == mapRiskToSeverity(analysisResult.riskLevel)
          IN /\ inc' = beforeCreate([Defaults EXCEPT
                                       !.exists = TRUE,
                                       !.incident_type = incidentType,
                                       !.severity = severity,
                                       !.detection_method = "AI_DETECTION",
                                       !.reporter_id = reporterId,
                                       !.risk_score = roundPercent(analysisResult.confidence)],
                                     now')
             /\ alerts' = IF severity = "CRITICAL" /\ alertUp THEN alerts + 1 ELSE alerts
             /\ result' = IF severity = "CRITICAL" /\ ~alertUp THEN "Error" ELSE "ok"
  /\ UNCHANGED <<analysisVars, inst, loginVars>>

\* Mutation: the ladder wraps around at the top.
nextSeverity_Wrap(severity) ==
  IF severity = "LOW" THEN "MEDIUM"
  ELSE IF severity = "MEDIUM" THEN "HIGH"
  ELSE IF severity = "HIGH" THEN "CRITICAL" ELSE "LOW"

\* The severity escalate assigns: one step up, CRITICAL for anything else.
nextSeverity(severity) ==
  IF severity = "LOW" THEN "MEDIUM"
  ELSE IF severity = "MEDIUM" THEN "HIGH" ELSE "CRITICAL"

\* FWAIncident.prototype.escalate(reason, userId)
escalate(reason, userId) ==
  /\ inc.exists
  /\ now < MaxTime
  /\ now' = now + 1
  /\ LET severity == nextSeverity(inc.severity)
         timelineEntry == [action |-> "ESCALATED",
                           timestamp |-> now',
                           user |-> userId,
                           reason |-> reason,
                           new_severity |-> severity]
         this == [inc EXCEPT !.severity = severity,
                             !.timeline = appendTimeline(inc.timeline, timelineEntry)]
     IN inc' = save(inc, this, now')
  /\ call' = [op |-> "escalate", target |-> "none"]
  /\ result' = "ok"
  /\ UNCHANGED alerts
  /\ UNCHANGED <<analysisVars, inst, loginVars>>

\* FWAIncident.prototype.referToOIG(caseNumber, userId)
referToOIG(caseNumber, userId) ==
  /\ inc.exists
  /\ now < MaxTime
  /\ now' = now + 1
  /\ LET timelineEntry == [action |-> "REFERRED_TO_OIG",
                           timestamp |-> now',
                           user |-> userId,
                           case_number |-> caseNumber]
         this == [inc EXCEPT !.oig_referral = TRUE,
                             !.oig_case_number = caseNumber,
                             !.regulatory_reported = TRUE,
                             !.regulatory_report_date = now',
                             !.status = "REFERRED_TO_OIG",
                             !.timeline = appendTimeline(inc.timeline, timelineEntry)]
     IN inc' = save(inc, this, now')
  /\ call' = [op |-> "referToOIG", target |-> "REFERRED_TO_OIG"]
  /\ result' = "ok"
  /\ UNCHANGED alerts
  /\ UNCHANGED <<analysisVars, inst, loginVars>>

\* incident.referToCMS(caseNumber, userId): the prototype defines escalate and
\* referToOIG only, so the call raises a TypeError and nothing is written.
referToCMS(caseNumber, userId) ==
  /\ inc.exists
  /\ now < MaxTime
  /\ now' = now + 1
  /\ call' = [op |-> "referToCMS", target |-> "REFERRED_TO_CMS"]
  /\ result' = "TypeError"
  /\ UNCHANGED <<inc, alerts>>
  /\ UNCHANGED <<analysisVars, inst, loginVars>>

\* The values a saved update may assign to an attribute.
UpdateValues(a) ==
  CASE a = "status" -> Statuses
    [] a = "severity" -> Severities
    [] a = "incident_type" -> UpdateTypes
    [] a = "financial_impact" -> FinValues
    [] a = "affected_count" -> AffValues
    [] a = "compliance_impact" -> ComplianceInputs
    [] a = "risk_score" -> RiskInputs \ {NoScore}

UpdateAttributes == {"status", "severity", "incident_type", "financial_impact",
                     "affected_count", "compliance_impact", "risk_score"}

\* incident.update({[a]: v}): set one attribute and save; the beforeUpdate
\* hook accepts every value.
update(a, v) ==
  /\ inc.exists
  /\ now < MaxTime
  /\ now' = now + 1
  /\ inc' = save(inc, [inc EXCEPT ![a] = v], now')
  /\ call' = [op |-> "update", target |-> IF a = "status" THEN v ELSE "none",
              changes |-> changed(inc, [inc EXCEPT ![a] = v])]
  /\ result' = "ok"
  /\ UNCHANGED alerts
  /\ UNCHANGED <<analysisVars, inst, loginVars>>

\* FWADetectionService.analyzeCallTranscript(transcript, metadata): the
\* extractors' outputs stand for the transcript; an extractor that throws
\* ends the call in the catch block, which rethrows.
analyzeCallTranscript(patterns, fraudScore, sentiment, failed, cacheUp) ==
  /\ now < MaxTime
  /\ now' = now + 1
  /\ call' = [op |-> "analyzeCallTranscript", target |-> "none",
              patterns |-> patterns,
              classification |-> classifyText(fraudScore),
              sentiment |-> sentiment,
              failed |-> failed,
              cacheUp |-> cacheUp]
  /\ IF failed # "none"
     THEN /\ result' = "Error"
          /\ UNCHANGED <<analysis, cache>>
     ELSE /\ analysis' = callAnalysis(patterns, classifyText(fraudScore), sentiment)
          /\ cache' = setWithExpiry(cache, analysis', cacheUp)
          /\ result' = "ok"
  /\ UNCHANGED <<inc, alerts, inst, loginVars>>

Next ==
  \/ \E type \in ReportTypes, severity \in Severities, fin \in FinValues, aff \in AffValues,
        comp \in ComplianceInputs, reporter \in Users, risk_in \in RiskInputs :
       Create(type, severity, fin, aff, comp, reporter, risk_in)
  \/ \E confidence \in Confidences, patterns \in PatternInputs, reporterId \in ReporterIds :
       reportFWAIncident([kind |-> "call",
                          confidence |-> confidence,
                          riskLevel |-> determineRiskLevel(confidence),
                          patterns |-> patterns], reporterId, TRUE)
  \/ \E reason \in Reasons, userId \in Users : escalate(reason, userId)
  \/ \E caseNumber \in CaseNumbers, userId \in Users : referToOIG(caseNumber, userId)
  \/ \E caseNumber \in CaseNumbers, userId \in Users : referToCMS(caseNumber, userId)
  \/ \E a \in UpdateAttributes : \E v \in UpdateValues(a) : update(a, v)

Spec == Init /\ [][Next]_vars

\* A caller reads the analysis through the cache: cacheHelpers.getCached with
\* a fetch function that computes the analysis of a transcript directly.
getCachedAnalysis(fraudScore, getUp, setUp) ==
  /\ call.op = "analyzeCallTranscript"
  /\ LET fetched == callAnalysis(<< >>, classifyText(fraudScore), 0)
         got == getCached(cache, fetched, getUp, setUp)
     IN /\ call' = [op |-> "getCached", target |-> "none",
                    fetched |-> fetched,
                    getUp |-> getUp,
                    setUp |-> setUp,
                    returned |-> got.value,
                    fetches |-> got.fetches]
        /\ cache' = got.cache
  /\ result' = "ok"
  /\ UNCHANGED <<inc, now, alerts, analysis, inst, loginVars>>

\* One transcript is analysed and its analysis is handed to reportFWAIncident.
NextAnalysis ==
  \/ /\ call.op = "none"
     /\ \E patterns \in PatternSeqs, fraudScore \in FraudScores, sentiment \in Sentiments,
           failed \in Failures, cacheUp \in BOOLEAN :
          analyzeCallTranscript(patterns, fraudScore, sentiment, failed, cacheUp)
  \/ /\ analysis # NoAnalysis
     /\ \E reporterId \in ReporterIds, alertUp \in BOOLEAN :
          reportFWAIncident(analysis, reporterId, alertUp)
  \/ \E fraudScore \in FetchFraudScores, getUp \in BOOLEAN, setUp \in BOOLEAN :
       getCachedAnalysis(fraudScore, getUp, setUp)

SpecAnalysis == Init /\ [][NextAnalysis]_vars

(***************************************************************************)
(* Handlers working on separately loaded instances                          *)
(***************************************************************************)
\* FWAIncident.findByPk(id): the handler gets its own copy of the row.
findByPk(a) ==
  /\ inc.exists
  /\ inst[a].pc = "idle"
  /\ inst' = [inst EXCEPT ![a] = [pc |-> "loaded", prev |-> inc, cur |-> inc]]
  /\ call' = [op |-> "findByPk", target |-> "none", actor |-> a]
  /\ result' = "ok"
  /\ UNCHANGED <<inc, now, alerts, analysisVars, loginVars>>

\* The UPDATE of instance.save(): only the listed fields reach the row.
writeFields(row, values, fields) ==
  [attr \in DOMAIN row |-> IF attr \in fields THEN values[attr] ELSE row[attr]]

\* instance.save() of a handler's instance `this` loaded as `prev`: the
\* beforeUpdate hook runs on the instance, then the UPDATE writes the fields
\* that differ from the loaded values.  When the UPDATE is rejected the row
\* is left alone and the instance keeps what the method and the hook assigned.
saveInstance(a, this, t, saved) ==
  LET prev == inst[a].prev
      hooked == IF changed(prev, this) = {} THEN this
                ELSE beforeUpdate(this, changed(prev, this), t)
  IN /\ inc' = IF saved THEN writeFields(inc, hooked, changed(prev, hooked)) ELSE inc
     /\ inst' = [inst EXCEPT ![a] = [pc |-> "done",
                                     prev |-> IF saved THEN hooked ELSE prev,
                                     cur |-> hooked,
                                     saved |-> saved]]
     /\ result' = IF saved THEN "ok" ELSE "Error"

\* FWAIncident.prototype.escalate(reason, userId) on a handler's instance.
instanceEscalate(a, reason, userId, saved) ==
  /\ inst[a].pc = "loaded"
  /\ now < MaxTime
  /\ now' = now + 1
  /\ LET severity == nextSeverity(inst[a].cur.severity)
         timelineEntry == [action |-> "ESCALATED",
                           timestamp |-> now',
                           user |-> userId,
                           reason |-> reason,
                           new_severity |-> severity]
         this == [inst[a].cur EXCEPT
                    !.severity = severity,
                    !.timeline = appendTimeline(inst[a].cur.timeline, timelineEntry)]
     IN saveInstance(a, this, now', saved)
  /\ call' = [op |-> "escalate", target |-> "none", actor |-> a]
  /\ UNCHANGED <<alerts, analysisVars, loginVars>>

\* FWAIncident.prototype.referToOIG(caseNumber, userId) on a handler's instance.
instanceReferToOIG(a, caseNumber, userId, saved) ==
  /\ inst[a].pc = "loaded"
  /\ now < MaxTime
  /\ now' = now + 1
  /\ LET timelineEntry == [action |-> "REFERRED_TO_OIG",
                           timestamp |-> now',
                           user |-> userId,
                           case_number |-> caseNumber]
         this == [inst[a].cur EXCEPT
                    !.oig_referral = TRUE,
                    !.oig_case_number = caseNumber,
                    !.regulatory_reported = TRUE,
                    !.regulatory_report_date = now',
                    !.status = "REFERRED_TO_OIG",
                    !.timeline = appendTimeline(inst[a].cur.timeline, timelineEntry)]
     IN saveInstance(a, this, now', saved)
  /\ call' = [op |-> "referToOIG", target |-> "REFERRED_TO_OIG", actor |-> a]
  /\ UNCHANGED <<alerts, analysisVars, loginVars>>

\* instance.update({financial_impact: fin}) on a handler's instance.
instanceUpdate(a, fin, saved) ==
  /\ inst[a].pc = "loaded"
  /\ now < MaxTime
  /\ now' = now + 1
  /\ saveInstance(a, [inst[a].cur EXCEPT !.financial_impact = fin], now', saved)
  /\ call' = [op |-> "update", target |-> "none", actor |-> a]
  /\ UNCHANGED <<alerts, analysisVars, loginVars>>

\* A human report is created; each handler loads it and runs one operation
\* whose save is accepted or rejected.
NextConc ==
  \/ \E type \in ReportTypes, severity \in Severities, fin \in FinValues,
        comp \in ComplianceInputs, reporter \in Users :
       Create(type, severity, fin, 0, comp, reporter, NoScore)
  \/ \E a \in Actors : findByPk(a)
  \/ \E a \in Actors, reason \in Reasons, userId \in Users, saved \in BOOLEAN :
       instanceEscalate(a, reason, userId, saved)
  \/ \E a \in Actors, caseNumber \in CaseNumbers, userId \in Users, saved \in BOOLEAN :
       instanceReferToOIG(a, caseNumber, userId, saved)
  \/ \E a \in Actors, fin \in FinValues, saved \in BOOLEAN :
       instanceUpdate(a, fin, saved)

SpecConc == Init /\ [][NextConc]_vars

(***************************************************************************)
(* The risk score on its own                                                *)
(***************************************************************************)
\* calculateRiskScore(incident) applied to one unsaved incident.
scoreIncident(severity, type, fin, aff, comp) ==
  /\ call.op = "none"
  /\ LET incident == [Defaults EXCEPT !.severity = severity,
                                      !.incident_type = type,
                                      !.financial_impact = fin,
                                      !.affected_count = aff,
                                      !.compliance_impact = comp]
     IN /\ call' = [op |-> "calculateRiskScore", target |-> "none", incident |-> incident]
        /\ result' = calculateRiskScore(incident)
  /\ UNCHANGED <<inc, now, alerts, analysisVars, inst, loginVars>>

NextScore ==
  \E severity \in ScoreSeverities, type \in ScoreTypes, fin \in ScoreFinValues,
     aff \in ScoreAffValues, comp \in ScoreCompliance :
    scoreIncident(severity, type, fin, aff, comp)

SpecScore == Init /\ [][NextScore]_vars

(***************************************************************************)
(* Billing batch analysis                                                   *)
(***************************************************************************)
\* A billing batch from its amounts; a bill's id is its place in that list.
Bills(amounts) == [k \in 1..Len(amounts) |-> [id |-> k, amount |-> amounts[k]]]

BillingInputs ==
  {Bills(ExampleAmounts)} \cup
  {Bills(head \o [k \in 1..pad |-> 100]) :
     head \in UNION {[1..n -> BillAmounts] : n \in 0..MaxBills}, pad \in PadCounts}

\* billingData.map(b => b.amount || 0): a new array.
amountsOf(billingData) == [k \in 1..Len(billingData) |-> billingData[k].amount]

RECURSIVE reduceSum(_, _)
\* amounts.reduce((a, b) => a + b, acc)
reduceSum(amounts, acc) ==
  IF amounts = << >> THEN acc ELSE reduceSum(Tail(amounts), acc + Head(amounts))

RECURSIVE insertSorted(_, _)
insertSorted(sorted, x) ==
  IF sorted = << >> THEN << x >>
  ELSE IF x < Head(sorted) THEN << x >> \o sorted
  ELSE << Head(sorted) >> \o insertSorted(Tail(sorted), x)

RECURSIVE sortAscending(_)
\* amounts.sort((a, b) => a - b)
sortAscending(amounts) ==
  IF amounts = << >> THEN << >>
  ELSE insertSorted(sortAscending(Tail(amounts)), Head(amounts))

\* calculateBillingStatistics, kept exact: with n = count and S = sum,
\* mean = S / n and stdDev^2 = sqDev / n^3 where sqDev is the sum of
\* (n * amount - S)^2 = n^2 * (amount - mean)^2 over the batch.
calculateBillingStatistics(billingData) ==
  IF Len(billingData) = 0 THEN [count |-> 0]
  ELSE LET amounts == amountsOf(billingData)
           n == Len(amounts)
           S == reduceSum(amounts, 0)
           sorted == sortAscending(amounts)
       IN [count |-> n,
           sum |-> S,
           sqDev |-> reduceSum([k \in 1..n |-> (n * amounts[k] - S) * (n * amounts[k] - S)], 0),
           median |-> sorted[(n \div 2) + 1],
           min |-> sorted[1],
           max |-> sorted[n]]

\* Math.abs((amount - mean) / stdDev) > k, squared and cleared of fractions:
\* n * (n * amount - S)^2 > k^2 * sqDev.  It is false when stdDev is 0 (the
\* quotient is NaN).  The right-hand side is divided by n first to stay
\* within 32 bits.
zScoreAbove(amount, stats, k) ==
  LET n == stats.count
      dev == n * amount - stats.sum
      Q == stats.sqDev
  IN dev * dev > (k * k) * (Q \div n) + ((k * k) * (Q % n)) \div n

\* The entry detectBillingAnomalies pushes for a flagged bill.
anomalyOf(bill, stats) ==
  [type |-> "STATISTICAL_OUTLIER",
   billId |-> bill.id,
   amount |-> bill.amount,
   severity |-> IF zScoreAbove(bill.amount, stats, 4) THEN 900 ELSE 700]

\* Mutation: the anomaly is keyed by the bill's position in the batch.
detectBillingAnomalies_ByPosition(billingData, stats) ==
  LET positions == SelectSeq([k \in 1..Len(billingData) |-> k],
                             LAMBDA k : zScoreAbove(billingData[k].amount, stats, 3))
  IN [j \in 1..Len(positions) |->
        [anomalyOf(billingData[positions[j]], stats) EXCEPT !.billId = positions[j]]]

\* billingData.forEach(bill => { if (zScore > 3) anomalies.push(...) })
detectBillingAnomalies(billingData, stats) ==
  LET flagged == SelectSeq(billingData, LAMBDA bill : zScoreAbove(bill.amount, stats, 3))
  IN [k \in 1..Len(flagged) |-> anomalyOf(flagged[k], stats)]

\* amounts.filter((amount, index) => amounts.indexOf(amount) !== index)
duplicateAmounts(amounts) ==
  {index \in 1..Len(amounts) : \E earlier \in 1..(index - 1) : amounts[earlier] = amounts[index]}

detectBillingPatterns(billingData) ==
  LET duplicates == duplicateAmounts(amountsOf(billingData))
  IN IF duplicates # {}
     THEN << [type |-> "DUPLICATE_AMOUNTS",
              count |-> Cardinality(duplicates),
              confidence |-> 800] >>
     ELSE << >>

\* FWADetectionService.analyzeBillingPattern(billingData): statistics,
\* anomalies, patterns and confidence are computed, then the call to
\* this.generateBillingRecommendations, which no class defines, raises a
\* TypeError that the catch block rethrows; nothing is returned.
analyzeBillingPattern(billingData) ==
  /\ call.op = "none"
  /\ LET stats == calculateBillingStatistics(billingData)
         anomalies == detectBillingAnomalies(billingData, stats)
         patterns == detectBillingPatterns(billingData)
         anomalyScore ==
           IF Len(anomalies) > 0
           THEN Min(1000, reduceSum([k \in 1..Len(anomalies) |-> anomalies[k].severity], 0) \div 10)
           ELSE 0
         patternScore ==
           IF Len(patterns) > 0
           THEN Min(1000, reduceSum([k \in 1..Len(patterns) |-> patterns[k].confidence], 0)
                            \div Len(patterns))
           ELSE 0
         confidence == Max(anomalyScore, patternScore)
     IN call' = [op |-> "analyzeBillingPattern", target |-> "none",
                 billingData |-> billingData,
                 statisticalAnalysis |-> stats,
                 anomalies |-> anomalies,
                 patterns |-> patterns,
                 confidence |-> confidence,
                 riskLevel |-> determineRiskLevel(confidence)]
  /\ result' = "TypeError"
  /\ UNCHANGED <<inc, now, alerts, analysisVars, inst, loginVars>>

NextBilling == \E billingData \in BillingInputs : analyzeBillingPattern(billingData)

SpecBilling == Init /\ [][NextBilling]_vars

(***************************************************************************)
(* Employee login and account lockout                                       *)
(***************************************************************************)
\* Employee.prototype.updateLastLogin (last_login itself is not kept).
updateLastLogin(employee) ==
  [employee EXCEPT !.failed_login_attempts = 0, !.account_locked = FALSE]

\* Employee.prototype.incrementFailedLogins at hour t.
incrementFailedLogins(employee, t) ==
  LET attempts == employee.failed_login_attempts + 1
  IN IF attempts >= 5
     THEN [employee EXCEPT !.failed_login_attempts = attempts,
                           !.account_locked = TRUE,
                           !.lock_expires = t + 1]
     ELSE [employee EXCEPT !.failed_login_attempts = attempts]

\* Employee.prototype.isAccountLocked at hour t: the answer and the employee
\* afterwards (an expired lock is cleared and saved on the way).
isAccountLocked(employee, t) ==
  IF ~employee.account_locked THEN [locked |-> FALSE, employee |-> employee]
  ELSE IF employee.lock_expires # NoDate /\ t > employee.lock_expires
  THEN [locked |-> FALSE,
        employee |-> [employee EXCEPT !.account_locked = FALSE,
                                      !.failed_login_attempts = 0]]
  ELSE [locked |-> TRUE, employee |-> employee]

\* router.post('/login') for an ACTIVE employee who is not excluded.
login(passwordOk) ==
  /\ session.failures < MaxFailures
  /\ LET check == isAccountLocked(emp, now)
     IN IF check.locked
        THEN /\ result' = "423"
             /\ emp' = check.employee
             /\ UNCHANGED session
        ELSE IF ~passwordOk
        THEN /\ result' = "401"
             /\ emp' = incrementFailedLogins(check.employee, now)
             /\ session' = [session EXCEPT !.failures = @ + 1]
        ELSE /\ result' = "200"
             /\ emp' = updateLastLogin(check.employee)
             /\ session' = [failures |-> 0, token |-> TRUE]
  /\ call' = [op |-> "login", target |-> "none", passwordOk |-> passwordOk]
  /\ UNCHANGED <<inc, now, alerts, analysisVars, inst>>

\* authenticate: a request that carries the token of an earlier login, for
\* an ACTIVE employee who is not excluded.
authenticate ==
  /\ session.token
  /\ LET check == isAccountLocked(emp, now)
     IN IF check.locked
        THEN /\ result' = "423"
             /\ emp' = check.employee
        ELSE /\ result' = "next"
             /\ emp' = updateLastLogin(check.employee)
  /\ call' = [op |-> "authenticate", target |-> "none"]
  /\ UNCHANGED <<inc, alerts, now, session, analysisVars, inst>>

\* An hour passes.
Tick ==
  /\ now < MaxTime
  /\ now' = now + 1
  /\ call' = [op |-> "tick", target |-> "none"]
  /\ UNCHANGED <<inc, alerts, result, loginVars, analysisVars, inst>>

NextLogin ==
  \/ \E passwordOk \in BOOLEAN : login(passwordOk)
  \/ authenticate
  \/ Tick

SpecLogin == Init /\ [][NextLogin]_vars

(***************************************************************************)
(* Properties                                                               *)
(***************************************************************************)
\* The risk-score formula as the specification states it.
severityWeight(s) ==
  CASE s = "LOW" -> 10 [] s = "MEDIUM" -> 25 [] s = "HIGH" -> 50 [] s = "CRITICAL" -> 75

typeWeight(ty) ==
  CASE ty = "FRAUD" -> 25
    [] ty \in {"IDENTITY_THEFT", "UNAUTHORIZED_DISCLOSURE"} -> 20
    [] ty \in {"BILLING_IRREGULARITY", "ENROLLMENT_MANIPULATION"} -> 15
    [] ty = "ABUSE" -> 10
    [] ty = "WASTE" -> 5
    [] OTHER -> 10

financialBand(x) == IF x > 100000 THEN 25 ELSE IF x > 10000 THEN 15 ELSE IF x > 1000 THEN 5 ELSE 0

affectedBand(n) == IF n > 100 THEN 20 ELSE IF n > 10 THEN 10 ELSE IF n > 1 THEN 5 ELSE 0

Flag(b) == IF b THEN 1 ELSE 0

RiskFormula(i) ==
  LET sum == severityWeight(i.severity) + typeWeight(i.incident_type)
             + financialBand(i.financial_impact) + affectedBand(i.affected_count)
             + 30 * Flag(i.compliance_impact.false_claims_act)
             + 25 * Flag(i.compliance_impact.anti_kickback)
             + 20 * Flag(i.compliance_impact.cms_violation)
             + 15 * Flag(i.compliance_impact.hipaa_violation)
  IN IF sum > 100 THEN 100 ELSE sum

\* The allowed state table of the lifecycle.
TerminalStatuses == {"RESOLVED", "CLOSED", "UNSUBSTANTIATED"}

AllowedTransition(s, t) ==
  \/ s = "REPORTED" /\ t = "UNDER_INVESTIGATION"
  \/ s = "UNDER_INVESTIGATION"
     /\ t \in {"SUBSTANTIATED", "UNSUBSTANTIATED", "REFERRED_TO_OIG", "REFERRED_TO_CMS"}
  \/ s \in {"SUBSTANTIATED", "UNSUBSTANTIATED"} /\ t \in {"REFERRED_TO_OIG", "REFERRED_TO_CMS"}
  \/ s \in {"REFERRED_TO_OIG", "REFERRED_TO_CMS"} /\ t \in {"RESOLVED", "CLOSED"}
  \/ s \notin TerminalStatuses /\ t = "CLOSED"

SeverityRank(s) ==
  CASE s = "LOW" -> 1 [] s = "MEDIUM" -> 2 [] s = "HIGH" -> 3 [] s = "CRITICAL" -> 4

\* C1: in every reachable state of an incident the stored risk_score equals
\* the specification's formula applied to the stored severity, type,
\* financial impact, affected count and compliance flags; a risk_score handed
\* in by a caller does not survive.
Thm_C1_RiskScoreIsFormula ==
  inc.exists => inc.risk_score = RiskFormula(inc)

\* An incident created by reportFWAIncident (which hands in round(confidence*100))
\* that has since been escalated.
Wit_C1_ReportedThenEscalated ==
  /\ inc.exists
  /\ inc.detection_method = "AI_DETECTION"
  /\ call.op = "escalate"
  /\ Len(inc.timeline) = 3

\* C2 (as claimed): an operation whose transition from the current status is
\* not in the allowed state table returns InvalidTransition and leaves status,
\* risk_score and the timeline length unchanged.
CE_C2_InvalidTransitionRejected ==
  [][(/\ inc.exists
      /\ call'.op \in {"referToOIG", "referToCMS", "update"}
      /\ call'.target \in Statuses
      /\ call'.target # inc.status
      /\ ~AllowedTransition(inc.status, call'.target))
     => (/\ result' = "InvalidTransition"
         /\ inc'.status = inc.status
         /\ inc'.risk_score = inc.risk_score
         /\ Len(inc'.timeline) = Len(inc.timeline))]_vars

Thm_C4_EscalateOneLevelCapped ==
  [][call'.op = "escalate" =>
       /\ SeverityRank(inc'.severity) =
            (IF SeverityRank(inc.severity) = 4 THEN 4 ELSE SeverityRank(inc.severity) + 1)
       /\ Len(inc'.timeline) > Len(inc.timeline)
       /\ inc'.timeline[Len(inc.timeline) + 1].action = "ESCALATED"
       /\ inc'.timeline[Len(inc.timeline) + 1].new_severity = inc'.severity]_vars

\* An escalate of an incident that was already CRITICAL: the save changed the
\* timeline only.
Wit_C4_EscalatedAtCritical ==
  /\ inc.exists
  /\ call.op = "escalate"
  /\ inc.severity = "CRITICAL"
  /\ inc.timeline[Len(inc.timeline)].changes = {"timeline"}

\* C5 (as claimed): in every reportFWAIncident or escalate step the critical
\* alert is invoked exactly once if the severity enters CRITICAL in that step
\* (at creation or by escalating from below) and not at all otherwise.
CE_C5_AlertOncePerCriticalEntry ==
  [][call'.op \in {"reportFWAIncident", "escalate"} =>
       alerts' = alerts + (IF /\ inc'.exists
                              /\ inc'.severity = "CRITICAL"
                              /\ (~inc.exists \/ inc.severity # "CRITICAL")
                           THEN 1 ELSE 0)]_vars

\* C6 (as claimed): once the status is RESOLVED, CLOSED or UNSUBSTANTIATED no
\* operation changes it to anything other than CLOSED.
CE_C6_TerminalStaysTerminal ==
  [][(inc.exists /\ inc.status \in TerminalStatuses)
     => inc'.status \in {inc.status, "CLOSED"}]_vars

\* C7 (as claimed): an incident that has been referred to a regulator is never
\* in status REPORTED.
CE_C7_ReferredNeverReported ==
  (inc.exists /\ (inc.oig_referral \/ inc.oig_case_number # "null"))
    => inc.status # "REPORTED"

\* C8 (as claimed): once referToOIG has set the referral fields, no operation
\* resets oig_referral or regulatory_reported or replaces the case number.
CE_C8_ReferralIrrevocable ==
  [][(inc.exists /\ inc.oig_referral)
     => /\ inc'.oig_referral
        /\ inc'.regulatory_reported
        /\ inc'.oig_case_number = inc.oig_case_number]_vars

\* C9 (as claimed): after referToOIG or referToCMS the incident is marked as
\* reported to the regulator with a report date, its status is the referral
\* status of the operation, and (for the OIG) the case number is recorded and
\* the timeline names the actor and the case number.
CE_C9_ReferralRecorded ==
  (inc.exists /\ call.op \in {"referToOIG", "referToCMS"}) =>
    /\ inc.regulatory_reported
    /\ inc.regulatory_report_date # NoDate
    /\ inc.status = call.target
    /\ call.op = "referToOIG" =>
         /\ inc.oig_referral
         /\ inc.oig_case_number \in CaseNumbers
         /\ \E k \in 1..Len(inc.timeline) :
              /\ inc.timeline[k].action = "REFERRED_TO_OIG"
              /\ inc.timeline[k].user \in Users
              /\ inc.timeline[k].case_number = inc.oig_case_number

\* C10: right after a creation (human report or reportFWAIncident) the status
\* is REPORTED, the timeline is exactly one REPORTED entry, and risk_score is
\* the formula value of the created attributes.
Thm_C10_CreatedState ==
  (call.op \in {"create", "reportFWAIncident"} /\ result = "ok") =>
    /\ inc.exists
    /\ inc.status = "REPORTED"
    /\ Len(inc.timeline) = 1
    /\ inc.timeline[1].action = "REPORTED"
    /\ inc.risk_score = RiskFormula(inc)

\* reportFWAIncident has just created an incident.
Wit_C10_JustReported ==
  call.op = "reportFWAIncident" /\ result = "ok" /\ inc.exists


\* C11 (as claimed): beginning an investigation (a saved status change to
\* UNDER_INVESTIGATION) is accepted only from REPORTED, and
\* investigation_started, once set, is never overwritten.
CE_C11_BeginInvestigationOnlyFromReported ==
  [][inc.exists =>
       /\ (call'.op = "update" /\ call'.target = "UNDER_INVESTIGATION"
           /\ inc.status # "REPORTED") => inc'.status = inc.status
       /\ inc.investigation_started # NoDate
            => inc'.investigation_started = inc.investigation_started]_vars

\* C12: a step that moves the status to RESOLVED or CLOSED leaves
\* investigation_completed set, and a value already set is kept by every
\* later step.
Thm_C12_InvestigationCompletedOnce ==
  [][inc.exists =>
       /\ (inc'.status \in {"RESOLVED", "CLOSED"} /\ inc'.status # inc.status)
            => inc'.investigation_completed # NoDate
       /\ inc.investigation_completed # NoDate
            => inc'.investigation_completed = inc.investigation_completed]_vars

\* RESOLVED at one instant, administratively CLOSED at a later one: the
\* completion date is still the first.
Wit_C12_ResolvedThenClosed ==
  /\ inc.exists
  /\ inc.status = "CLOSED"
  /\ Len(inc.timeline) = 3
  /\ inc.timeline[2].action = "STATUS_CHANGED_TO_RESOLVED"
  /\ inc.investigation_completed = inc.timeline[2].timestamp
  /\ inc.investigation_completed < inc.timeline[3].timestamp

\* C13: reportFWAIncident returns null and creates nothing exactly when the
\* confidence is below 0.3; from 0.3 on it creates the incident and returns it.
Thm_C13_NullExactlyBelowFloor ==
  call.op = "reportFWAIncident" =>
    /\ (result = "null") <=> (call.confidence < 300)
    /\ (result = "null") => ~inc.exists
    /\ (call.confidence >= 300) => (result = "ok" /\ inc.exists /\ Len(inc.timeline) = 1)

\* An analysis of confidence exactly 0.3 was reported and created an incident.
Wit_C13_ReportedAtFloor ==
  call.op = "reportFWAIncident" /\ call.confidence = 300 /\ result = "ok" /\ inc.exists

\* Claim-side helpers for the analysis claims.
SetMax(S) == IF S = {} THEN 0 ELSE CHOOSE x \in S : \A y \in S : y <= x

ConfidencesOf(patterns) == {patterns[k].confidence : k \in 1..Len(patterns)}

CategoriesOf(patterns) == {patterns[k].category : k \in 1..Len(patterns)}

Perms(seq) ==
  {[k \in 1..Len(seq) |-> seq[f[k]]] :
     f \in {g \in [1..Len(seq) -> 1..Len(seq)] : \A i, j \in 1..Len(seq) : g[i] = g[j] => i = j}}

\* C14: the overall confidence of a call analysis is
\* min(1, 0.5*max pattern confidence + 0.4*classification confidence + bias),
\* bias 0.2 for a sentiment below -0.3 and 0 otherwise, and lies in [0, 1].
Thm_C14_FusionFormula ==
  (call.op = "analyzeCallTranscript" /\ result = "ok") =>
    LET sum == (5 * SetMax(ConfidencesOf(call.patterns))
                + 4 * call.classification.confidence) \div 10
               + (IF call.sentiment < -300 THEN 200 ELSE 0)
    IN /\ analysis.confidence = (IF sum > 1000 THEN 1000 ELSE sum)
       /\ analysis.confidence >= 0
       /\ analysis.confidence <= 1000

\* An analysis whose weighted sum exceeds 1 and is clamped.
Wit_C14_Clamped ==
  /\ call.op = "analyzeCallTranscript"
  /\ result = "ok"
  /\ analysis.confidence = 1000
  /\ call.sentiment < -300

\* C15: every order of the same findings gives the same overall confidence
\* and the same risk level.
Thm_C15_FusionOrderIndependent ==
  (call.op = "analyzeCallTranscript" /\ result = "ok") =>
    \A q \in Perms(call.patterns) :
      /\ callAnalysis(q, call.classification, call.sentiment).confidence = analysis.confidence
      /\ callAnalysis(q, call.classification, call.sentiment).riskLevel = analysis.riskLevel

\* Two findings of different confidence, the stronger one listed first.
Wit_C15_StrongerFirst ==
  /\ call.op = "analyzeCallTranscript"
  /\ result = "ok"
  /\ Len(call.patterns) = 2
  /\ call.patterns[1].confidence > call.patterns[2].confidence

\* C16 (as claimed): >= 0.9 CRITICAL, >= 0.8 HIGH, >= 0.6 MEDIUM, >= 0.3 LOW,
\* a confidence below 0.3 has no risk level, and it creates no incident.
CE_C16_NoLevelBelowFloor ==
  /\ analysis # NoAnalysis =>
       analysis.riskLevel = (IF analysis.confidence >= 900 THEN "CRITICAL"
                             ELSE IF analysis.confidence >= 800 THEN "HIGH"
                             ELSE IF analysis.confidence >= 600 THEN "MEDIUM"
                             ELSE IF analysis.confidence >= 300 THEN "LOW" ELSE "NONE")
  /\ (call.op = "reportFWAIncident" /\ call.confidence < 300) => ~inc.exists

\* C16 (amended): >= 0.9 CRITICAL, >= 0.8 HIGH, >= 0.6 MEDIUM, every lower
\* confidence LOW (also below 0.3); a confidence below 0.3 creates no incident.
Thm_C16_RiskLevels ==
  /\ analysis # NoAnalysis =>
       analysis.riskLevel = (IF analysis.confidence >= 900 THEN "CRITICAL"
                             ELSE IF analysis.confidence >= 800 THEN "HIGH"
                             ELSE IF analysis.confidence >= 600 THEN "MEDIUM"
                             ELSE "LOW")
  /\ (call.op = "reportFWAIncident" /\ call.confidence < 300) =>
       (result = "null" /\ ~inc.exists)

\* An analysis below the floor, classified LOW, was handed to reportFWAIncident.
Wit_C16_BelowFloorReported ==
  /\ analysis # NoAnalysis
  /\ analysis.confidence < 300
  /\ analysis.riskLevel = "LOW"
  /\ call.op = "reportFWAIncident"

\* C17: the type of an auto-reported incident follows the precedence billing,
\* enrollment, benefits over the categories of the findings, whatever their
\* order; without any of them it is SUSPICIOUS_ACTIVITY.
Thm_C17_TypePrecedence ==
  (call.op = "reportFWAIncident" /\ result = "ok") =>
    inc.incident_type =
      (IF "billing" \in CategoriesOf(call.patterns) THEN "BILLING_IRREGULARITY"
       ELSE IF "enrollment" \in CategoriesOf(call.patterns) THEN "ENROLLMENT_MANIPULATION"
       ELSE IF "benefits" \in CategoriesOf(call.patterns) THEN "BENEFIT_MISREPRESENTATION"
       ELSE "SUSPICIOUS_ACTIVITY")

\* A billing finding listed after a benefits finding decided the type.
Wit_C17_BillingListedSecond ==
  /\ call.op = "reportFWAIncident"
  /\ result = "ok"
  /\ Len(call.patterns) = 2
  /\ call.patterns[1].category = "benefits"
  /\ call.patterns[2].category = "billing"
  /\ inc.incident_type = "BILLING_IRREGULARITY"

\* C18 (as claimed): an analysis in which one extractor fails still completes
\* and returns a result.
CE_C18_AnalysisSurvivesExtractorFailure ==
  call.op = "analyzeCallTranscript" => (result = "ok" /\ analysis # NoAnalysis)

\* C19 (as claimed): an operation whose save is rejected leaves nothing behind,
\* neither in the stored row nor in the instance the caller holds.
CE_C19_RejectedSaveLeavesNothing ==
  [][\A a \in Actors :
       (inst[a].pc = "loaded" /\ inst'[a].pc = "done" /\ ~inst'[a].saved) =>
         (inc' = inc /\ inst'[a].cur = inst[a].cur)]_vars

\* C20 (as claimed): once both handlers have saved, the stored risk score is
\* the formula of the stored severity, type, financial impact, affected count
\* and compliance flags.
CE_C20_ScoreFromPostWriteState ==
  (\A a \in Actors : inst[a].pc = "done" /\ inst[a].saved) =>
    inc.risk_score = RiskFormula(inc)

\* C21 (as claimed): once both handlers have saved, the stored timeline holds
\* every entry either of them appended; the second save removes nothing the
\* first one wrote.
CE_C21_BothSaversEntriesKept ==
  (\A a \in Actors : inst[a].pc = "done" /\ inst[a].saved) =>
    \A a \in Actors :
      \A k \in 1..Len(inst[a].cur.timeline) :
        \E j \in 1..Len(inc.timeline) : inc.timeline[j] = inst[a].cur.timeline[k]

\* C22 (as claimed): when the alert for a CRITICAL incident fails, the
\* incident stays stored and reportFWAIncident still returns it.
CE_C22_AlertFailureNotFatal ==
  (call.op = "reportFWAIncident" /\ call.confidence >= 900 /\ ~call.alertUp) =>
    (inc.exists /\ inc.severity = "CRITICAL" /\ result = "ok")

FlaggedIds(anomalies) == {anomalies[k].billId : k \in 1..Len(anomalies)}

Swap(seq, i, j) ==
  [k \in 1..Len(seq) |-> IF k = i THEN seq[j] ELSE IF k = j THEN seq[i] ELSE seq[k]]

\* C24 (as claimed): in the batch [100, 100, 105, 98, 100, 5000] the 5000
\* item is flagged as an outlier, and a bill is flagged exactly when its
\* z-score against the whole batch exceeds 3.
CE_C24_ExampleOutlierFlagged ==
  call.op = "analyzeBillingPattern" =>
    /\ amountsOf(call.billingData) = ExampleAmounts => 6 \in FlaggedIds(call.anomalies)
    /\ \A k \in 1..Len(call.billingData) :
         (call.billingData[k].id \in FlaggedIds(call.anomalies))
           <=> zScoreAbove(call.billingData[k].amount, call.statisticalAnalysis, 3)

\* C25 (as claimed): a billing-batch analysis with outlier or duplicate
\* findings and a confidence at or above the floor yields an analysis whose
\* incident type is BILLING_IRREGULARITY.
CE_C25_BillingBatchGivesBillingType ==
  (/\ call.op = "analyzeBillingPattern"
   /\ (call.anomalies # << >> \/ call.patterns # << >>)
   /\ call.confidence >= 300) =>
    /\ result = "ok"
    /\ analysis # NoAnalysis
    /\ determineIncidentType(analysis) = "BILLING_IRREGULARITY"

\* C26: a failing cache never fails an analysis: with the cache down,
\* analyzeCallTranscript still returns the analysis it computed, and
\* getCached returns what the fetch function computes.
Thm_C26_CacheFailureNotFatal ==
  /\ (call.op = "analyzeCallTranscript" /\ call.failed = "none" /\ ~call.cacheUp) =>
       /\ result = "ok"
       /\ analysis = callAnalysis(call.patterns, call.classification, call.sentiment)
  /\ (call.op = "getCached" /\ (~call.getUp \/ ~call.setUp) /\ call.fetches > 0) =>
       call.returned = call.fetched
  /\ (call.op = "getCached" /\ ~call.getUp) => call.returned = call.fetched

\* The cache refused the analysis, and a later read through the failing
\* cache got the directly computed value.
Wit_C26_ReadThroughFailingCache ==
  /\ call.op = "getCached"
  /\ ~call.getUp
  /\ analysis # NoAnalysis
  /\ cache = NoAnalysis
  /\ call.returned = call.fetched

Thm_C28_EscalateNeverLowersScore ==
  [][call'.op = "escalate" =>
       /\ inc'.risk_score >= inc.risk_score
       /\ (SeverityRank(inc'.severity) > SeverityRank(inc.severity) /\ inc.risk_score < 100)
            => inc'.risk_score > inc.risk_score]_vars

\* An escalate raised severity and, with it, a score that was below 100.
Wit_C28_EscalateRaisedScore ==
  /\ call.op = "escalate"
  /\ inc.severity = "HIGH"
  /\ inc.risk_score > 50
  /\ inc.risk_score < 100
  /\ Len(inc.timeline) = 3

\* C29: a saved escalate or referToOIG appends exactly two entries, its own
\* and then the hook's (STATUS_CHANGED_TO_<status> when status changed,
\* UPDATED otherwise); a save that changes no field appends nothing and
\* leaves the risk score (and the whole row) as it was.
Thm_C29_TwoEntriesPerOperation ==
  [][/\ call'.op \in {"escalate", "referToOIG"} =>
          /\ Len(inc'.timeline) = Len(inc.timeline) + 2
          /\ SubSeq(inc'.timeline, 1, Len(inc.timeline)) = inc.timeline
          /\ inc'.timeline[Len(inc.timeline) + 1].action =
               (IF call'.op = "escalate" THEN "ESCALATED" ELSE "REFERRED_TO_OIG")
          /\ inc'.timeline[Len(inc.timeline) + 2].action =
               (IF inc'.status # inc.status
                THEN "STATUS_CHANGED_TO_" \o inc'.status ELSE "UPDATED")
     /\ (call'.op = "update" /\ call'.changes = {}) =>
          /\ inc'.timeline = inc.timeline
          /\ inc'.risk_score = inc.risk_score
          /\ inc' = inc]_vars

\* After one escalate, an update that assigns the stored value was saved.
Wit_C29_NoOpUpdateSaved ==
  /\ call.op = "update"
  /\ call.changes = {}
  /\ Len(inc.timeline) = 3

\* C30 (as claimed): the fifth failed password attempt since the last
\* successful login locks the account for one hour; until then every login
\* is refused as locked, whatever the password; failed_login_attempts >= 5
\* implies locked; a successful login leaves the counter at 0 and the
\* account unlocked, and so does the first check after the lock expired.
CE_C30_LockAfterFiveFailures ==
  [][/\ (call'.op = "login" /\ session.failures = 4 /\ session'.failures = 5) =>
          (emp'.account_locked /\ emp'.lock_expires = now + 1)
     /\ (call'.op = "login" /\ emp.account_locked /\ now <= emp.lock_expires) =>
          (result' = "423" /\ emp' = emp)
     /\ emp'.failed_login_attempts >= 5 => emp'.account_locked
     /\ (call'.op = "login" /\ result' = "200") =>
          (emp'.failed_login_attempts = 0 /\ ~emp'.account_locked)
     /\ (call'.op = "login" /\ emp.account_locked /\ now > emp.lock_expires) =>
          (result' # "423" /\ emp'.failed_login_attempts <= 1)]_vars

=============================================================================
